---------------------------- MODULE Spec2Model ----------------------------
(* Verification model of the flashcard converters:                          *)
(*   quizlet_convert.py  in-place tab-source converter (file or folder)     *)
(*   script.py           in-place tab-source converter (folder only)        *)
(*   txt_to_csv.py       equals-source converter (per-file / combined)      *)
(* Text is modelled as sequences of one-character strings.                  *)
EXTENDS Integers, Sequences, FiniteSets, TLC

(***************************************************************************)
(* Bounds of the explored input space.                                     *)
(***************************************************************************)
MaxLineLen == 5      \* characters per line, line-level specification
MaxFileLen == 2      \* characters per line body, in-place specification
MaxFileLines == 2    \* lines per file, in-place specification
MaxRuns == 2         \* invocations of an in-place converter on one path
MaxTxtLines == 2     \* lines per .txt file
MaxFiles == 2        \* .txt files in the folder

(***************************************************************************)
(* Characters.                                                             *)
(***************************************************************************)
TAB == "\t"
QUOTE == "\""
COMMA == ","
SPACE == " "
EQUALS == "="
LF == "\n"
CR == "\r"
Whitespace == {SPACE, TAB, LF, CR}

Strings(alphabet, n) == UNION {[1..k -> alphabet] : k \in 0..n}

(***************************************************************************)
(* Python string primitives used by the scripts.                           *)
(***************************************************************************)
RECURSIVE rstrip(_, _)
rstrip(s, chars) ==
    IF s # <<>> /\ s[Len(s)] \in chars
    THEN rstrip(SubSeq(s, 1, Len(s) - 1), chars)
    ELSE s

RECURSIVE lstrip(_, _)
lstrip(s, chars) ==
    IF s # <<>> /\ s[1] \in chars THEN lstrip(Tail(s), chars) ELSE s

strip(s) == lstrip(rstrip(s, Whitespace), Whitespace)

\* str.split(sep, maxsplit); maxsplit = -1 means no limit
RECURSIVE split(_, _, _)
split(s, sep, maxsplit) ==
    LET hits == {i \in 1..Len(s) : s[i] = sep} IN
    IF hits = {} \/ maxsplit = 0
    THEN <<s>>
    ELSE LET i == CHOOSE h \in hits : \A g \in hits : h <= g
         IN <<SubSeq(s, 1, i - 1)>>
              \o split(SubSeq(s, i + 1, Len(s)), sep, maxsplit - 1)

join_first(parts, sep) == IF parts = <<>> THEN <<>> ELSE parts[1]

RECURSIVE join(_, _)
join(parts, sep) ==
    IF parts = <<>> THEN <<>>
    ELSE IF Len(parts) = 1 THEN parts[1]
    ELSE parts[1] \o <<sep>> \o join(Tail(parts), sep)

RECURSIVE replace(_, _, _)
replace(s, old, new) ==
    IF s = <<>> THEN <<>>
    ELSE (IF s[1] = old THEN new ELSE <<s[1]>>) \o replace(Tail(s), old, new)

(***************************************************************************)
(* quote_field (identical in quizlet_convert.py and script.py)             *)
(***************************************************************************)
quote_field_nodouble(text) ==
    LET t == strip(text)
        u == IF Len(t) >= 2 /\ t[1] = QUOTE /\ t[Len(t)] = QUOTE
             THEN SubSeq(t, 2, Len(t) - 1) ELSE t
    IN <<QUOTE>> \o u \o <<QUOTE>>

quote_field_len1(text) ==
    LET t == strip(text)
        u == IF Len(t) >= 1 /\ t[1] = QUOTE /\ t[Len(t)] = QUOTE
             THEN SubSeq(t, 2, Len(t) - 1) ELSE t
    IN <<QUOTE>> \o replace(u, QUOTE, <<QUOTE, QUOTE>>) \o <<QUOTE>>

quote_field(text) ==
    LET t == strip(text)
        u == IF Len(t) >= 2 /\ t[1] = QUOTE /\ t[Len(t)] = QUOTE
             THEN SubSeq(t, 2, Len(t) - 1) ELSE t
    IN <<QUOTE>> \o replace(u, QUOTE, <<QUOTE, QUOTE>>) \o <<QUOTE>>

\* the line written for one record (w.write(f"{...},{...}\n"))
record_line(t, d) == quote_field(t) \o <<COMMA>> \o quote_field(d) \o <<LF>>


(***************************************************************************)
(* One iteration of the read loop of the tab-source converters:            *)
(* rstrip, blank test, split on TAB, len(parts) < 2 test, term,            *)
(* definition, and the two quote_field calls of the written line.          *)
(***************************************************************************)
line_parts(rawline) == split(rstrip(rawline, {CR, LF}), TAB, -1)

line_skipped(rawline) ==
    rstrip(rawline, {CR, LF}) = <<>> \/ Len(line_parts(rawline)) < 2

line_term(rawline) == line_parts(rawline)[1]

line_definition(rawline) == join(Tail(line_parts(rawline)), TAB)

(***************************************************************************)
(* State.                                                                  *)
(***************************************************************************)
VARIABLES
    \* in-place converters (quizlet_convert.py, script.py)
    script,        \* which script is run
    argc,          \* len(sys.argv)
    targetKind,    \* what sys.argv[1] names: "file", "dir" or "none"
    isCsv,         \* the file's name ends with .csv (case-insensitively)
    dest,          \* content stored at the file's path: sequence of raw lines
    orig,          \* content at the path when the current conversion began
    tmpExists,     \* the temporary file of the conversion exists
    tmpContent,    \* lines written to the temporary file
    pc,            \* position of the process
    idx,           \* number of source lines consumed by the loop
    lines_written, \* counter of quizlet_convert.py (records written)
    raw, skipped, term, definition, \* locals of the last loop iteration
    outcome,       \* status line printed for the file
    prevOutcome,   \* outcome of the previous run on the same path
    exitStatus,    \* exit status of the process, -1 while running
    runs,          \* number of invocations so far
    \* line-level run of the loop body
    pcL, line, qterm, qdefinition, wrote,
    \* txt_to_csv.py
    pcT, folder, combined, txt_files, i, all_rows, rowsRead,
    outFiles, combinedOut, writes

ipVars == <<script, argc, targetKind, isCsv, dest, orig, tmpExists,
            tmpContent, pc, idx, lines_written, raw, skipped, term,
            definition, outcome, prevOutcome, exitStatus, runs>>
lineVars == <<pcL, line, qterm, qdefinition, wrote>>
txtVars == <<pcT, folder, combined, txt_files, i, all_rows, rowsRead,
             outFiles, combinedOut, writes>>
vars == <<ipVars, lineVars, txtVars>>

NoText == <<"-">>    \* value of a local that holds nothing yet

(***************************************************************************)
(* Inputs of the in-place converters.                                      *)
(***************************************************************************)
FileAlphabet == {"a", TAB}
Eols == {<<LF>>, <<CR, LF>>}
FileBodies == Strings(FileAlphabet, MaxFileLen)
Files ==
    UNION { { [k \in 1..n |-> b[k] \o eol] : b \in [1..n -> FileBodies] }
            : <<n, eol>> \in (0..MaxFileLines) \X Eols }

IdleInPlace ==
    /\ script = "none" /\ argc = 0 /\ targetKind = "none" /\ isCsv = FALSE
    /\ dest = <<>> /\ orig = <<>> /\ tmpExists = FALSE /\ tmpContent = <<>>
    /\ pc = "idle" /\ idx = 0 /\ lines_written = 0
    /\ raw = NoText /\ skipped = FALSE /\ term = NoText
    /\ definition = NoText
    /\ outcome = "none" /\ prevOutcome = "none" /\ exitStatus = -1
    /\ runs = 0

IdleLine ==
    /\ pcL = "idle" /\ line = NoText /\ qterm = NoText
    /\ qdefinition = NoText /\ wrote = NoText

IdleTxt ==
    /\ pcT = "idle" /\ folder = <<>> /\ combined = FALSE
    /\ txt_files = <<>> /\ i = 0 /\ all_rows = <<>> /\ rowsRead = <<>>
    /\ outFiles = <<>> /\ combinedOut = <<>> /\ writes = 0

InitInPlace ==
    /\ script \in {"quizlet_convert", "script"}
    /\ argc \in {1, 2, 3}
    /\ targetKind \in {"file", "dir", "none"}
    /\ isCsv \in BOOLEAN
    /\ dest \in Files
    /\ orig = dest
    /\ tmpExists = FALSE /\ tmpContent = <<>>
    /\ pc = "main" /\ idx = 0 /\ lines_written = 0
    /\ raw = NoText /\ skipped = FALSE /\ term = NoText
    /\ definition = NoText
    /\ outcome = "none" /\ prevOutcome = "none" /\ exitStatus = -1
    /\ runs = 1

Init == InitInPlace /\ IdleLine /\ IdleTxt


(***************************************************************************)
(* In-place converters: process entry.  The directory case holds the one   *)
(* file of the model; os.listdir yields it and the extension filter        *)
(* decides whether it is converted.                                        *)
(***************************************************************************)
locals == <<idx, lines_written, raw, skipped, term, definition>>
fsVars == <<dest, orig, tmpExists, tmpContent>>
argVars == <<script, argc, targetKind, isCsv>>

Exit(status, result) ==
    /\ pc' = "exit"
    /\ exitStatus' = status
    /\ outcome' = result
    /\ idx' = 0 /\ lines_written' = 0
    /\ raw' = NoText /\ skipped' = FALSE /\ term' = NoText
    /\ definition' = NoText

\* len(sys.argv) != 2: usage message, sys.exit(1)
MainUsage ==
    /\ UNCHANGED <<lineVars, txtVars>>
    /\ pc = "main" /\ argc # 2
    /\ Exit(1, "Usage")
    /\ UNCHANGED <<argVars, fsVars, prevOutcome, runs>>

\* quizlet_convert.py __main__, convert_folder's listing and convert_file's
\* extension test
MainQuizlet ==
    /\ UNCHANGED <<lineVars, txtVars>>
    /\ pc = "main" /\ argc = 2 /\ script = "quizlet_convert"
    /\ IF targetKind = "none"
       THEN Exit(0, "NotValid")
       ELSE IF ~isCsv
       THEN Exit(0, "Skipped")
       ELSE /\ pc' = "mkstemp"
            /\ UNCHANGED <<locals, outcome, exitStatus>>
    /\ UNCHANGED <<argVars, fsVars, prevOutcome, runs>>

\* script.py __main__ and convert_folder's isdir test and extension filter
MainScript ==
    /\ UNCHANGED <<lineVars, txtVars>>
    /\ pc = "main" /\ argc = 2 /\ script = "script"
    /\ IF targetKind # "dir"
       THEN Exit(0, "NotValid")
       ELSE IF ~isCsv
       THEN Exit(0, "none")
       ELSE /\ pc' = "mkstemp"
            /\ UNCHANGED <<locals, outcome, exitStatus>>
    /\ UNCHANGED <<argVars, fsVars, prevOutcome, runs>>

\* tempfile.mkstemp(dir=folder, suffix=".tmp"); os.close(fd)
MkStemp ==
    /\ UNCHANGED <<lineVars, txtVars>>
    /\ pc = "mkstemp"
    /\ tmpExists' = TRUE /\ tmpContent' = <<>>
    /\ orig' = dest
    /\ pc' = "open"
    /\ UNCHANGED <<argVars, dest, locals, outcome, prevOutcome, exitStatus,
                   runs>>

\* a variant that opens the destination itself for writing
OpenTruncatesDest ==
    /\ UNCHANGED <<lineVars, txtVars>>
    /\ pc = "open"
    /\ pc' = "loop"
    /\ idx' = 0 /\ lines_written' = 0
    /\ dest' = <<>>
    /\ UNCHANGED <<argVars, orig, tmpExists, tmpContent, raw, skipped, term,
                   definition, outcome, prevOutcome, exitStatus, runs>>

\* with open(path, "r") as r, open(tmp, "w") as w: lines_written = 0
Open ==
    /\ UNCHANGED <<lineVars, txtVars>>
    /\ pc = "open"
    /\ pc' = "loop"
    /\ idx' = 0 /\ lines_written' = 0
    /\ UNCHANGED <<argVars, fsVars, raw, skipped, term, definition, outcome,
                   prevOutcome, exitStatus, runs>>

\* either open() raises (OSError)
OpenFails ==
    /\ UNCHANGED <<lineVars, txtVars>>
    /\ pc = "open"
    /\ pc' = "except"
    /\ UNCHANGED <<argVars, fsVars, locals, outcome, prevOutcome, exitStatus,
                   runs>>

\* one iteration of "for raw in r": strip, skip tests, split, write
ReadLine ==
    /\ UNCHANGED <<lineVars, txtVars>>
    /\ pc = "loop" /\ idx < Len(dest)
    /\ LET rawline == dest[idx + 1] IN
       /\ idx' = idx + 1
       /\ raw' = rstrip(rawline, {CR, LF})
       /\ skipped' = line_skipped(rawline)
       /\ IF line_skipped(rawline)
          THEN /\ term' = NoText /\ definition' = NoText
               /\ UNCHANGED <<tmpContent, lines_written>>
          ELSE /\ term' = line_term(rawline)
               /\ definition' = line_definition(rawline)
               /\ tmpContent' = Append(tmpContent,
                      record_line(line_term(rawline),
                                  line_definition(rawline)))
               /\ lines_written' = IF script = "quizlet_convert"
                                   THEN lines_written + 1 ELSE lines_written
    /\ UNCHANGED <<argVars, dest, orig, tmpExists, pc, outcome, prevOutcome,
                   exitStatus, runs>>

\* reading the next line raises (UnicodeDecodeError, OSError)
ReadFails ==
    /\ UNCHANGED <<lineVars, txtVars>>
    /\ pc = "loop"
    /\ pc' = "except"
    /\ UNCHANGED <<argVars, fsVars, locals, outcome, prevOutcome, exitStatus,
                   runs>>

\* w.write raises after part of the record reached the temporary file
WriteFails ==
    /\ UNCHANGED <<lineVars, txtVars>>
    /\ pc = "loop" /\ idx < Len(dest) /\ ~line_skipped(dest[idx + 1])
    /\ \E n \in 0..Len(record_line(line_term(dest[idx + 1]),
                                   line_definition(dest[idx + 1]))) - 1 :
          tmpContent' = Append(tmpContent,
              SubSeq(record_line(line_term(dest[idx + 1]),
                                 line_definition(dest[idx + 1])), 1, n))
    /\ pc' = "except"
    /\ UNCHANGED <<argVars, dest, orig, tmpExists, locals, outcome,
                   prevOutcome, exitStatus, runs>>

\* end of the loop: the with block closes both files
EndLoop ==
    /\ UNCHANGED <<lineVars, txtVars>>
    /\ pc = "loop" /\ idx = Len(dest)
    /\ pc' = "commit"
    /\ UNCHANGED <<argVars, fsVars, locals, outcome, prevOutcome, exitStatus,
                   runs>>

\* quizlet_convert.py: remove the temporary file when nothing was written,
\* else os.replace(tmp, path)
CommitQuizlet ==
    /\ UNCHANGED <<lineVars, txtVars>>
    /\ pc = "commit" /\ script = "quizlet_convert"
    /\ IF lines_written = 0
       THEN /\ tmpExists' = FALSE /\ tmpContent' = <<>>
            /\ UNCHANGED dest
            /\ Exit(0, "Empty")
       ELSE /\ dest' = tmpContent
            /\ tmpExists' = FALSE /\ tmpContent' = <<>>
            /\ Exit(0, "Converted")
    /\ UNCHANGED <<argVars, orig, prevOutcome, runs>>

\* script.py: os.replace(tmp, src) unconditionally, "Overwrote"
CommitScript ==
    /\ UNCHANGED <<lineVars, txtVars>>
    /\ pc = "commit" /\ script = "script"
    /\ dest' = tmpContent
    /\ tmpExists' = FALSE /\ tmpContent' = <<>>
    /\ Exit(0, "Converted")
    /\ UNCHANGED <<argVars, orig, prevOutcome, runs>>

\* os.replace raises: nothing is renamed
ReplaceFails ==
    /\ UNCHANGED <<lineVars, txtVars>>
    /\ pc = "commit"
    /\ (script = "script" \/ lines_written # 0)
    /\ pc' = "except"
    /\ UNCHANGED <<argVars, fsVars, locals, outcome, prevOutcome, exitStatus,
                   runs>>

\* a handler that forgets the temporary file
ExceptKeepsTmp ==
    /\ UNCHANGED <<lineVars, txtVars>>
    /\ pc = "except"
    /\ Exit(0, "Failed")
    /\ UNCHANGED <<argVars, fsVars, prevOutcome, runs>>

\* except Exception: remove the temporary file if it exists, "Failed"
Except ==
    /\ UNCHANGED <<lineVars, txtVars>>
    /\ pc = "except"
    /\ tmpExists' = FALSE /\ tmpContent' = <<>>
    /\ Exit(0, "Failed")
    /\ UNCHANGED <<argVars, dest, orig, prevOutcome, runs>>

\* the user invokes the same command on the same path again
Rerun ==
    /\ UNCHANGED <<lineVars, txtVars>>
    /\ pc = "exit" /\ runs < MaxRuns
    /\ pc' = "main"
    /\ runs' = runs + 1
    /\ prevOutcome' = outcome
    /\ outcome' = "none" /\ exitStatus' = -1
    /\ UNCHANGED <<argVars, fsVars, locals>>

NextInPlace ==
    \/ MainUsage \/ MainQuizlet \/ MainScript
    \/ MkStemp \/ Open \/ OpenFails
    \/ ReadLine \/ ReadFails \/ WriteFails \/ EndLoop
    \/ CommitQuizlet \/ CommitScript \/ ReplaceFails
    \/ Except \/ Rerun

Next == NextInPlace

Spec == Init /\ [][Next]_vars


(***************************************************************************)
(* Line-level specification: the loop body of the tab-source converters    *)
(* applied to one line over the full alphabet.                             *)
(***************************************************************************)
LineAlphabet == {"a", TAB, QUOTE, COMMA, SPACE, EQUALS}
Lines == {b \o <<LF>> : b \in Strings(LineAlphabet, MaxLineLen)}

InitLine ==
    /\ IdleInPlace /\ IdleTxt
    /\ pcL = "read"
    /\ line \in Lines
    /\ qterm = NoText /\ qdefinition = NoText /\ wrote = NoText

\* raw.rstrip, blank test, split, len(parts) < 2 test, term, definition
LineSplit ==
    /\ pcL = "read"
    /\ raw' = rstrip(line, {CR, LF})
    /\ skipped' = line_skipped(line)
    /\ IF line_skipped(line)
       THEN /\ term' = NoText /\ definition' = NoText /\ pcL' = "done"
       ELSE /\ term' = line_term(line)
            /\ definition' = line_definition(line)
            /\ pcL' = "write"
    /\ UNCHANGED <<line, qterm, qdefinition, wrote, txtVars, argVars, fsVars,
                   pc, idx, lines_written, outcome, prevOutcome, exitStatus,
                   runs>>

\* w.write(f"{quote_field(term)},{quote_field(definition)}\n")
LineWrite ==
    /\ pcL = "write"
    /\ qterm' = quote_field(term)
    /\ qdefinition' = quote_field(definition)
    /\ wrote' = record_line(term, definition)
    /\ pcL' = "done"
    /\ UNCHANGED <<line, ipVars, txtVars>>

NextLine == LineSplit \/ LineWrite

SpecLine == InitLine /\ [][NextLine]_vars

(***************************************************************************)
(* txt_to_csv.py: parse_line, read_text, write_csv, convert_folder.        *)
(* A file is named by its rank in filename order; its bytes either decode  *)
(* under one of the encodings tried or under none.                         *)
(***************************************************************************)
None == <<>>

parse_line(ln) ==
    LET s == strip(ln) IN
    IF s = <<>> THEN None
    ELSE LET parts == split(s, EQUALS, 1) IN
         IF Len(parts) # 2 THEN None
         ELSE <<strip(parts[1]), strip(parts[2])>>

RECURSIVE read_text(_)
read_text(lines) ==
    IF lines = <<>> THEN <<>>
    ELSE LET parsed == parse_line(lines[1]) IN
         (IF parsed = None THEN <<>> ELSE <<parsed>>)
           \o read_text(Tail(lines))

\* csv.writer(f, quoting=csv.QUOTE_ALL).writerow([term, definition])
csv_writerow(row) ==
    <<QUOTE>> \o replace(row[1], QUOTE, <<QUOTE, QUOTE>>) \o <<QUOTE, COMMA>>
      \o <<QUOTE>> \o replace(row[2], QUOTE, <<QUOTE, QUOTE>>)
      \o <<QUOTE, CR, LF>>

write_csv(rows) ==
    [exists |-> TRUE, content |-> [k \in 1..Len(rows) |-> csv_writerow(rows[k])]]

NoFile == [exists |-> FALSE, content |-> <<>>]

unsorted(names) == names

RECURSIVE sorted(_)
sorted(names) ==
    IF names = <<>> THEN <<>>
    ELSE LET k == CHOOSE m \in 1..Len(names) :
                    \A j \in 1..Len(names) : names[m] <= names[j]
         IN <<names[k]>>
              \o sorted(SubSeq(names, 1, k - 1)
                          \o SubSeq(names, k + 1, Len(names)))

\* the lines a .txt file is made of: a blank line, a line without '=',
\* a plain card, and a card with surrounding blanks and a second '='
TxtLines ==
    { <<LF>>,
      <<"a", LF>>,
      <<"a", EQUALS, "b", LF>>,
      <<SPACE, "b", SPACE, EQUALS, SPACE, "a", EQUALS, LF>> }
TxtFiles ==
    {[decodable |-> TRUE, lines |-> l] :
        l \in UNION {[1..n -> TxtLines] : n \in 0..MaxTxtLines}}
    \cup {[decodable |-> FALSE, lines |-> <<>>]}
Folders == UNION {[1..n -> TxtFiles] : n \in 0..MaxFiles}

InitTxt ==
    /\ IdleInPlace /\ IdleLine
    /\ pcT = "start"
    /\ folder \in Folders
    /\ combined \in BOOLEAN
    /\ txt_files = <<>> /\ i = 0 /\ all_rows = <<>> /\ rowsRead = <<>>
    /\ outFiles = [k \in 1..Len(folder) |-> NoFile]
    /\ combinedOut = NoFile
    /\ writes = 0

\* txt_files = sorted(p for p in folder.glob("*.txt") if p.is_file());
\* glob yields the files in an arbitrary order
TxtGlob ==
    /\ pcT = "start"
    /\ \E order \in Permutations(1..Len(folder)) :
          txt_files' = sorted([k \in 1..Len(folder) |-> order[k]])
    /\ pcT' = IF Len(folder) = 0 THEN "done" ELSE "read"
    /\ UNCHANGED <<folder, combined, i, all_rows, rowsRead, outFiles,
                   combinedOut, writes, ipVars, lineVars>>

\* read_text finds no encoding that decodes the file: RuntimeError, which
\* neither convert_folder nor main catches
TxtReadFails ==
    /\ pcT = "read" /\ i < Len(txt_files)
    /\ ~folder[txt_files[i + 1]].decodable
    /\ pcT' = "crashed"
    /\ UNCHANGED <<folder, combined, txt_files, i, all_rows, rowsRead,
                   outFiles, combinedOut, writes, ipVars, lineVars>>

\* combined mode: rows = read_text(p); all_rows.extend(rows)
TxtReadCombined ==
    /\ pcT = "read" /\ combined /\ i < Len(txt_files)
    /\ folder[txt_files[i + 1]].decodable
    /\ all_rows' = all_rows \o read_text(folder[txt_files[i + 1]].lines)
    /\ i' = i + 1
    /\ UNCHANGED <<pcT, folder, combined, txt_files, rowsRead, outFiles,
                   combinedOut, writes, ipVars, lineVars>>

\* combined mode: write_csv(all_rows, combined); return
TxtWriteCombined ==
    /\ pcT = "read" /\ combined /\ i = Len(txt_files)
    /\ combinedOut' = write_csv(all_rows)
    /\ writes' = writes + 1
    /\ pcT' = "done"
    /\ UNCHANGED <<folder, combined, txt_files, i, all_rows, rowsRead,
                   outFiles, ipVars, lineVars>>

\* per-file mode: rows = read_text(p)
TxtReadFile ==
    /\ pcT = "read" /\ ~combined /\ i < Len(txt_files)
    /\ folder[txt_files[i + 1]].decodable
    /\ rowsRead' = read_text(folder[txt_files[i + 1]].lines)
    /\ pcT' = "write"
    /\ UNCHANGED <<folder, combined, txt_files, i, all_rows, outFiles,
                   combinedOut, writes, ipVars, lineVars>>

\* per-file mode: write_csv(rows, out_path)
TxtWriteFile ==
    /\ pcT = "write"
    /\ outFiles' = [outFiles EXCEPT ![txt_files[i + 1]] = write_csv(rowsRead)]
    /\ writes' = writes + 1
    /\ i' = i + 1
    /\ rowsRead' = <<>>
    /\ pcT' = "read"
    /\ UNCHANGED <<folder, combined, txt_files, all_rows, combinedOut,
                   ipVars, lineVars>>

\* per-file mode: the loop is exhausted
TxtFinish ==
    /\ pcT = "read" /\ ~combined /\ i = Len(txt_files)
    /\ pcT' = "done"
    /\ UNCHANGED <<folder, combined, txt_files, i, all_rows, rowsRead,
                   outFiles, combinedOut, writes, ipVars, lineVars>>

NextTxt ==
    \/ TxtGlob \/ TxtReadFails \/ TxtReadCombined \/ TxtWriteCombined
    \/ TxtReadFile \/ TxtWriteFile \/ TxtFinish

SpecTxt == InitTxt /\ [][NextTxt]_vars

(***************************************************************************)
(* Reference definitions used to state the properties.                     *)
(***************************************************************************)
\* RFC 4180 reading of one line: fields, whether each was quoted, and
\* whether the line is well formed (no stray or unterminated quote)
RECURSIVE CsvScan(_, _, _, _, _)
CsvScan(s, k, mode, cur, acc) ==
    IF k > Len(s)
    THEN IF mode = "quoted"
         THEN [ok |-> FALSE, fields |-> acc]
         ELSE [ok |-> TRUE,
               fields |-> Append(acc, [text |-> cur,
                                       quoted |-> mode = "closed"])]
    ELSE LET c == s[k] IN
      CASE mode = "start" ->
             IF c = QUOTE THEN CsvScan(s, k + 1, "quoted", <<>>, acc)
             ELSE IF c = COMMA
             THEN CsvScan(s, k + 1, "start", <<>>,
                          Append(acc, [text |-> <<>>, quoted |-> FALSE]))
             ELSE CsvScan(s, k + 1, "plain", <<c>>, acc)
        [] mode = "plain" ->
             IF c = QUOTE THEN [ok |-> FALSE, fields |-> acc]
             ELSE IF c = COMMA
             THEN CsvScan(s, k + 1, "start", <<>>,
                          Append(acc, [text |-> cur, quoted |-> FALSE]))
             ELSE CsvScan(s, k + 1, "plain", Append(cur, c), acc)
        [] mode = "quoted" ->
             IF c = QUOTE
             THEN IF k < Len(s) /\ s[k + 1] = QUOTE
                  THEN CsvScan(s, k + 2, "quoted", Append(cur, QUOTE), acc)
                  ELSE CsvScan(s, k + 1, "closed", cur, acc)
             ELSE CsvScan(s, k + 1, "quoted", Append(cur, c), acc)
        [] mode = "closed" ->
             IF c = COMMA
             THEN CsvScan(s, k + 1, "start", <<>>,
                          Append(acc, [text |-> cur, quoted |-> TRUE]))
             ELSE [ok |-> FALSE, fields |-> acc]

CsvParse(s) == CsvScan(s, 1, "start", <<>>, <<>>)

\* s with surrounding whitespace trimmed, then one outer pair of quotes
\* removed
Trimmed(s) ==
    IF \A k \in 1..Len(s) : s[k] \in Whitespace THEN <<>>
    ELSE LET lo == CHOOSE k \in 1..Len(s) :
                     /\ s[k] \notin Whitespace
                     /\ \A j \in 1..(k - 1) : s[j] \in Whitespace
             hi == CHOOSE k \in 1..Len(s) :
                     /\ s[k] \notin Whitespace
                     /\ \A j \in (k + 1)..Len(s) : s[j] \in Whitespace
         IN SubSeq(s, lo, hi)

Unwrapped(s) ==
    LET t == Trimmed(s) IN
    IF Len(t) >= 2 /\ t[1] = QUOTE /\ t[Len(t)] = QUOTE
    THEN [k \in 1..(Len(t) - 2) |-> t[k + 1]]
    ELSE t

HasTab(s) == \E k \in 1..Len(s) : s[k] = TAB

\* the line without its trailing carriage returns and newlines
Body(rawline) ==
    LET n == CHOOSE m \in 0..Len(rawline) :
                /\ m = 0 \/ rawline[m] \notin {CR, LF}
                /\ \A j \in (m + 1)..Len(rawline) : rawline[j] \in {CR, LF}
    IN SubSeq(rawline, 1, n)

ValidLine(rawline) == HasTab(Body(rawline))

BeforeFirstTab(s) ==
    LET k == CHOOSE m \in 1..Len(s) :
                s[m] = TAB /\ \A j \in 1..(m - 1) : s[j] # TAB
    IN SubSeq(s, 1, k - 1)

AfterFirstTab(s) ==
    LET k == CHOOSE m \in 1..Len(s) :
                s[m] = TAB /\ \A j \in 1..(m - 1) : s[j] # TAB
    IN SubSeq(s, k + 1, Len(s))

ExpectedRecord(rawline) ==
    record_line(BeforeFirstTab(Body(rawline)), AfterFirstTab(Body(rawline)))

\* the complete converted content of a file: one line per valid record,
\* in source order
ExpectedContent(file) ==
    LET valid == SelectSeq(file, ValidLine)
    IN [k \in 1..Len(valid) |-> ExpectedRecord(valid[k])]


(***************************************************************************)
(* Properties of the in-place converters (specification Spec).             *)
(***************************************************************************)

\* C1: in every reachable state of an in-place conversion the content at
\* the destination path is either the original content or the complete
\* converted content of all valid records, never a partial conversion.
C1_DestinationAtomic ==
    dest = orig \/ dest = ExpectedContent(orig)

C1_Witness ==
    /\ pc = "exit" /\ outcome = "Converted"
    /\ Len(orig) = 2 /\ Len(dest) = 2 /\ dest # orig
    /\ dest = ExpectedContent(orig)

\* C2: when a conversion parses zero valid records (a source holding only
\* blank lines, or only lines without a tab), the temporary file is
\* deleted, the original file is left identical and the outcome is Empty,
\* for both in-place converters.
C2_ZeroRecordSafety ==
    (/\ pc = "exit"
     /\ outcome \in {"Converted", "Empty"}
     /\ orig # <<>>
     /\ SelectSeq(orig, ValidLine) = <<>>)
    => (outcome = "Empty" /\ dest = orig /\ ~tmpExists)

\* C3: once an error has occurred between the creation of the temporary
\* file and the completion of the rename, the conversion returns with the
\* original content unchanged, no temporary file left and outcome Failed.
C3_FailureAtomic ==
    [][pc = "except" =>
         (/\ pc' = "exit" /\ outcome' = "Failed"
          /\ ~tmpExists' /\ dest' = orig /\ dest = orig)]_vars

C3_Witness ==
    /\ pc = "exit" /\ outcome = "Failed"
    /\ ExpectedContent(orig) # <<>>
    /\ dest = orig /\ ~tmpExists

\* C4: a second run of the in-place converter on the already converted
\* file (the first run wrote its records; orig is that output) produces
\* zero records, reports Empty and leaves the file identical to the
\* output of the first run.
C4_Idempotent ==
    (/\ pc = "exit"
     /\ prevOutcome = "Converted"
     /\ orig # <<>>
     /\ outcome \in {"Converted", "Empty"})
    => (outcome = "Empty" /\ dest = orig)

\* C6: the process exits with status 1 on a wrong argument count or on a
\* target that is neither a file nor a directory, and with status 0 on
\* normal completion, per-file failures included.
C6_ExitStatus ==
    pc = "exit" =>
        exitStatus = (IF argc # 2 \/ targetKind = "none" THEN 1 ELSE 0)

\* C10: after removing trailing CR/LF the splitter skips a line that is
\* empty or has no tab; otherwise term is the text before the first tab,
\* definition all text after it with later tabs preserved, so that
\* term + TAB + definition is the stripped line; each non-skipped line
\* yields exactly one record, in source order.
C10_SplitCorrect ==
    (pc = "loop" /\ idx >= 1) =>
        /\ raw = Body(dest[idx])
        /\ skipped <=> (raw = <<>> \/ ~HasTab(raw))
        /\ ~skipped => (/\ term \o <<TAB>> \o definition = raw
                        /\ ~HasTab(term))
        /\ Len(tmpContent) = Cardinality({k \in 1..idx : ValidLine(dest[k])})
        /\ tmpContent = ExpectedContent(SubSeq(dest, 1, idx))

C10_Witness ==
    /\ pc = "loop" /\ idx = 2 /\ ~skipped
    /\ HasTab(definition)
    /\ Len(tmpContent) = 1

(***************************************************************************)
(* Properties of the written line (specification SpecLine).                *)
(***************************************************************************)

\* C7: the line written for a record, quote_field(term) + "," +
\* quote_field(definition), parses under CSV rules as exactly two quoted
\* fields, whatever the fields contain.
C7_TwoQuotedFields ==
    (pcL = "done" /\ ~skipped) =>
        /\ wrote # <<>> /\ wrote[Len(wrote)] = LF
        /\ LET p == CsvParse(SubSeq(wrote, 1, Len(wrote) - 1)) IN
             /\ p.ok
             /\ Len(p.fields) = 2
             /\ p.fields[1].quoted /\ p.fields[2].quoted

C7_Witness ==
    /\ pcL = "done" /\ ~skipped
    /\ \E k \in 1..Len(definition) : definition[k] = QUOTE
    /\ \E k \in 1..Len(definition) : definition[k] = COMMA
    /\ HasTab(definition)

\* C8: parsing quote_field(s) as one quoted CSV field yields s trimmed and
\* with one outer pair of double quotes removed.
C8_QuoteRoundTrip ==
    (pcL = "done" /\ ~skipped) =>
        \A f \in {<<term, qterm>>, <<definition, qdefinition>>} :
            LET p == CsvParse(f[2]) IN
              /\ p.ok
              /\ Len(p.fields) = 1
              /\ p.fields[1].quoted
              /\ p.fields[1].text = Unwrapped(f[1])

C8_Witness ==
    /\ pcL = "done" /\ ~skipped
    /\ term = <<QUOTE>>
    /\ definition = <<QUOTE, "a", QUOTE>>


(***************************************************************************)
(* Properties of txt_to_csv.py (specification SpecTxt).                    *)
(***************************************************************************)
RECURSIVE ExpectedCombined(_)
ExpectedCombined(files) ==
    IF files = <<>> THEN <<>>
    ELSE ExpectedCombined(SubSeq(files, 1, Len(files) - 1))
           \o write_csv(read_text(files[Len(files)].lines)).content

\* C5: in a directory holding a file that no encoding decodes and a valid
\* file, the failure never propagates out of the batch loop and every
\* valid file, sorted before or after the failing one, is still read and
\* its output written.
C5_BatchIsolation ==
    (/\ pcT \in {"done", "crashed"}
     /\ \E k \in 1..Len(folder) : ~folder[k].decodable
     /\ \E k \in 1..Len(folder) : folder[k].decodable)
    => /\ pcT = "done"
       /\ \A k \in 1..Len(folder) :
            folder[k].decodable =>
               IF combined THEN combinedOut.exists ELSE outFiles[k].exists

\* C9: in combined mode the single output holds exactly the records of all
\* .txt files, file by file in filename order and in line order within a
\* file, nothing dropped, duplicated or reordered, and it is written once,
\* only after every file has been read.
C9_CombinedOrder ==
    combined =>
        /\ writes <= 1
        /\ combinedOut.exists =>
              /\ writes = 1
              /\ i = Len(folder)
              /\ combinedOut.content = ExpectedCombined(folder)
        /\ (pcT = "done" /\ folder # <<>>) => combinedOut.exists

C9_Witness ==
    /\ combined /\ pcT = "done" /\ combinedOut.exists
    /\ Len(folder) = 2
    /\ Len(read_text(folder[1].lines)) = 2
    /\ Len(read_text(folder[2].lines)) = 1
    /\ folder[1].lines[1] # folder[1].lines[2]
    /\ Len(combinedOut.content) = 3

=============================================================================
